---- MODULE Spec2Model ----
(***************************************************************************)
(* Model of lab1 of krypto2023: the MD5 differential transform             *)
(* (md5_attack.rs), the collision search and its coordinator (task3.rs)    *)
(* and the verifier (utils.rs, main.rs).                                   *)
(*                                                                         *)
(* A u32 is a pair <<hi, lo>> of 16-bit halves (TLC's integers are 32-bit  *)
(* signed, a u32 does not fit one); all arithmetic is modulo 2^32.         *)
(***************************************************************************)
EXTENDS Integers, Sequences, FiniteSets, TLC

\* ------------------------------------------------------------------ u32

H16 == 65536

RECURSIVE And16(_, _)
And16(x, y) ==
    IF x = 0 \/ y = 0 THEN 0
    ELSE (x % 2) * (y % 2) + 2 * And16(x \div 2, y \div 2)

RECURSIVE Pow2(_)
Pow2(n) == IF n = 0 THEN 1 ELSE 2 * Pow2(n - 1)

\* x & y
AND(x, y) == <<And16(x[1], y[1]), And16(x[2], y[2])>>
\* x | y
OR(x, y) == <<x[1] + y[1] - And16(x[1], y[1]), x[2] + y[2] - And16(x[2], y[2])>>
\* x ^ y
XOR(x, y) == <<x[1] + y[1] - 2 * And16(x[1], y[1]), x[2] + y[2] - 2 * And16(x[2], y[2])>>
\* !x
NOT(x) == <<H16 - 1 - x[1], H16 - 1 - x[2]>>

\* x << n and x >> n on a u32, 0 < n < 32
SHL(x, n) ==
    IF n >= 16
    THEN <<(x[2] * Pow2(n - 16)) % H16, 0>>
    ELSE <<((x[1] * Pow2(n)) % H16) + (x[2] \div Pow2(16 - n)), (x[2] * Pow2(n)) % H16>>
SHR(x, n) ==
    IF n >= 16
    THEN <<0, x[1] \div Pow2(n - 16)>>
    ELSE <<x[1] \div Pow2(n), ((x[1] * Pow2(16 - n)) % H16) + (x[2] \div Pow2(n))>>

\* $a.wrapping_add($b)
add(x, y) ==
    LET lo == x[2] + y[2]
    IN  <<(x[1] + y[1] + (lo \div H16)) % H16, lo % H16>>
\* $a.wrapping_sub($b)
sub(x, y) ==
    LET lo == x[2] - y[2] + H16
    IN  <<(x[1] - y[1] + (lo \div H16) - 1 + H16) % H16, lo % H16>>
\* ($x << $n) | ($x >> (32 - $n))
rotate_left(x, n) == OR(SHL(x, n), SHR(x, 32 - n))
\* ($x >> $n) | ($x << (32 - $n))
rotate_right(x, n) == OR(SHR(x, n), SHL(x, 32 - n))

ZeroWord == <<0, 0>>

\* the four bytes of a u32, least significant first
ByteOf(x, j) ==
    CASE j = 0 -> x[2] % 256
      [] j = 1 -> x[2] \div 256
      [] j = 2 -> x[1] % 256
      [] j = 3 -> x[1] \div 256

\* ------------------------------------------------- bit-fix corrections

FIX_0(x, mask) == AND(x, NOT(mask))
FIX_1(x, mask) == OR(x, mask)
FIX_PREV_NoClear(x, mask, x_prev) == OR(x, AND(x_prev, mask))
FIX_PREV(x, mask, x_prev) == OR(AND(x, NOT(mask)), AND(x_prev, mask))

\* round 1
F(x, y, z) == OR(AND(x, y), AND(NOT(x), z))
T(ra, rb, rc, rd, x, s, ac) ==
    add(rotate_left(add(add(add(ra, F(rb, rc, rd)), x), ac), s), rb)

T_INV_NoPrev(ra, ra_prev, rb, rc, rd, s, ac) ==
    sub(rotate_right(sub(ra, rb), s), add(F(rb, rc, rd), ac))
T_INV(ra, ra_prev, rb, rc, rd, s, ac) ==
    sub(rotate_right(sub(ra, rb), s), add(add(F(rb, rc, rd), ac), ra_prev))

S1 == 7
S2 == 12
S3 == 17
S4 == 2

A1_0 == <<\h0a00, \h0820>>
A1_1 == <<\h8420, \h0000>>
D1_0 == <<\h0220, \h8026>>
D1_1 == <<\h8c00, \h0800>>
D1_P == <<\h701f, \h10c0>>
C1_0 == <<\h4020, \h1080>>
C1_1 == <<\hbe1f, \h0966>>
C1_P == <<\h0000, \h0018>>
B1_0 == <<\h443b, \h19ee>>
B1_1 == <<\hba04, \h0010>>
B1_P == <<\h0000, \h0601>>
A2_0 == <<\hb410, \h11af>>
A2_1 == <<\h482f, \h0e50>>
D2_0 == <<\h9a11, \h13a9>>
D2_1 == <<\h0422, \h0c56>>
C2_0 == <<\h0832, \h01c0>>
C2_1 == <<\h9601, \h1e01>>
C2_P == <<\h0180, \h8000>>
B2_0 == <<\h1b81, \h0001>>
B2_1 == <<\h8432, \h83c0>>
B2_P == <<\h0000, \h0002>>
A3_0 == <<\h0382, \h8202>>
A3_1 == <<\h9c01, \h01c1>>
A3_P == <<\h0000, \h1000>>
D3_0 == <<\h0004, \h1003>>
D3_1 == <<\h8783, \h83c0>>
C3_0 == <<\h0002, \h1000>>
C3_1 == <<\h8005, \h83c3>>
C3_P == <<\h0008, \h6000>>
B3_0 == <<\h0007, \he000>>
B3_1 == <<\h8008, \h1080>>
B3_P == <<\h7f00, \h0000>>
A4_0 == <<\hc000, \h0080>>
A4_1 == <<\h3f0f, \he008>>
D4_0 == <<\hbf04, \h0000>>
D4_1 == <<\h400b, \he088>>
C4_0 == <<\h8200, \h8008>>
C4_1 == <<\h7d00, \h0000>>
B4_0 == <<\h8000, \h0000>>
B4_1 == <<\h2000, \h0000>>

\* Per step 1..16 of round 1: the masks FIX_0 and FIX_1 are called with.
Mask0 == <<A1_0, D1_0, C1_0, B1_0, A2_0, D2_0, C2_0, B2_0,
           A3_0, D3_0, C3_0, B3_0, A4_0, D4_0, C4_0, B4_0>>
Mask1 == <<A1_1, D1_1, C1_1, B1_1, A2_1, D2_1, C2_1, B2_1,
           A3_1, D3_1, C3_1, B3_1, A4_1, D4_1, C4_1, B4_1>>
\* The steps that call FIX_PREV, and the mask each calls it with.
PrevSteps == {2, 3, 4, 7, 8, 9, 11, 12}
MaskP(k) ==
    CASE k = 2 -> D1_P [] k = 3 -> C1_P [] k = 4 -> B1_P
      [] k = 7 -> C2_P [] k = 8 -> B2_P [] k = 9 -> A3_P
      [] k = 11 -> C3_P [] k = 12 -> B3_P

\* The rotation amount and the additive constant of step k of round 1.
Shift1(k) == <<S1, S2, S3, S4>>[((k - 1) % 4) + 1]
AC1 == <<
    <<\hd76a, \ha478>>, <<\he8c7, \hb756>>, <<\h2420, \h70db>>, <<\hc1bd, \hceee>>,
    <<\hf57c, \h0faf>>, <<\h4787, \hc62a>>, <<\ha830, \h4613>>, <<\hfd46, \h9501>>,
    <<\h6980, \h98d8>>, <<\h8b44, \hf7af>>, <<\hffff, \h5bb1>>, <<\h895c, \hd7be>>,
    <<\h6b90, \h1122>>, <<\hfd98, \h7193>>, <<\ha679, \h438e>>, <<\h49b4, \h0821>> >>

\* The register a step writes ($a of T!) and the three it reads ($b, $c, $d):
\* T!(a, b, c, d), T!(d, a, b, c), T!(c, d, a, b), T!(b, c, d, a), repeating.
Target(k) == <<"a", "d", "c", "b">>[((k - 1) % 4) + 1]
ArgB(k)   == <<"b", "a", "d", "c">>[((k - 1) % 4) + 1]
ArgC(k)   == <<"c", "b", "a", "d">>[((k - 1) % 4) + 1]
ArgD(k)   == <<"d", "c", "b", "a">>[((k - 1) % 4) + 1]

\* a_prev = a (and d_prev, c_prev, b_prev) follows steps 1..12 only.
RefreshPrev_First4(k) == k <= 4
RefreshPrev(k) == k <= 12

\* ------------------------------------------------------- rounds 2 to 4

G(x, y, z) == OR(AND(x, z), AND(y, NOT(z)))
H(x, y, z) == XOR(XOR(x, y), z)
I(x, y, z) == XOR(y, OR(x, NOT(z)))

T2(ra, rb, rc, rd, x, s, ac) ==
    add(rotate_left(add(add(add(ra, G(rb, rc, rd)), x), ac), s), rb)
T3(ra, rb, rc, rd, x, s, ac) ==
    add(rotate_left(add(add(add(ra, H(rb, rc, rd)), x), ac), s), rb)
T4(ra, rb, rc, rd, x, s, ac) ==
    add(rotate_left(add(add(add(ra, I(rb, rc, rd)), x), ac), s), rb)

ShiftTab == << <<5, 9, 14, 20>>, <<4, 11, 16, 23>>, <<6, 10, 15, 21>> >>
\* input[..] index (0-based, as in the source) of each step of rounds 2, 3, 4
IndexTab == <<
    <<1, 6, 11, 0, 5, 10, 15, 4, 9, 14, 3, 8, 13, 2, 7, 12>>,
    <<5, 8, 11, 14, 1, 4, 7, 10, 13, 0, 3, 6, 9, 12, 15, 2>>,
    <<0, 7, 14, 5, 12, 3, 10, 1, 8, 15, 6, 13, 4, 11, 2, 9>> >>
ACTab == <<
  <<<<\hf61e, \h2562>>, <<\hc040, \hb340>>, <<\h265e, \h5a51>>, <<\he9b6, \hc7aa>>,
    <<\hd62f, \h105d>>, <<\h0244, \h1453>>, <<\hd8a1, \he681>>, <<\he7d3, \hfbc8>>,
    <<\h21e1, \hcde6>>, <<\hc337, \h07d6>>, <<\hf4d5, \h0d87>>, <<\h455a, \h14ed>>,
    <<\ha9e3, \he905>>, <<\hfcef, \ha3f8>>, <<\h676f, \h02d9>>, <<\h8d2a, \h4c8a>> >>,
  <<<<\hfffa, \h3942>>, <<\h8771, \hf681>>, <<\h6d9d, \h6122>>, <<\hfde5, \h380c>>,
    <<\ha4be, \hea44>>, <<\h4bde, \hcfa9>>, <<\hf6bb, \h4b60>>, <<\hbebf, \hbc70>>,
    <<\h289b, \h7ec6>>, <<\heaa1, \h27fa>>, <<\hd4ef, \h3085>>, <<\h0488, \h1d05>>,
    <<\hd9d4, \hd039>>, <<\he6db, \h99e5>>, <<\h1fa2, \h7cf8>>, <<\hc4ac, \h5665>> >>,
  <<<<\hf429, \h2244>>, <<\h432a, \hff97>>, <<\hab94, \h23a7>>, <<\hfc93, \ha039>>,
    <<\h655b, \h59c3>>, <<\h8f0c, \hcc92>>, <<\hffef, \hf47d>>, <<\h8584, \h5dd1>>,
    <<\h6fa8, \h7e4f>>, <<\hfe2c, \he6e0>>, <<\ha301, \h4314>>, <<\h4e08, \h11a1>>,
    <<\hf753, \h7e82>>, <<\hbd3a, \hf235>>, <<\h2ad7, \hd2bb>>, <<\heb86, \hd391>> >> >>

\* One step of round r in 2..4 on the registers rg = [a, b, c, d].
LaterStep(r, k, rg, x) ==
    LET s  == ShiftTab[r - 1][((k - 1) % 4) + 1]
        ac == ACTab[r - 1][k]
        w  == x[IndexTab[r - 1][k] + 1]
        ra == rg[Target(k)]
        rb == rg[ArgB(k)]
        rc == rg[ArgC(k)]
        rd == rg[ArgD(k)]
        v  == CASE r = 2 -> T2(ra, rb, rc, rd, w, s, ac)
                [] r = 3 -> T3(ra, rb, rc, rd, w, s, ac)
                [] r = 4 -> T4(ra, rb, rc, rd, w, s, ac)
    IN  [rg EXCEPT ![Target(k)] = v]

\* Every register holds a u32.  (Checking it step by step also makes TLC
\* compute each step before the next one reads it.)
IsWord(w) == w[1] \in 0..(H16 - 1) /\ w[2] \in 0..(H16 - 1)
IsRegs(rg) == IsWord(rg.a) /\ IsWord(rg.b) /\ IsWord(rg.c) /\ IsWord(rg.d)
IsBlock(x) == \A i \in 1..16 : IsWord(x[i])

\* Steps k..16 of round r in 2..4.
RECURSIVE LaterRound(_, _, _, _)
LaterRound(r, k, rg, x) ==
    IF k > 16 THEN rg
    ELSE CASE IsRegs(rg) -> LaterRound(r, k + 1, LaterStep(r, k, rg, x), x)

\* Rounds 2, 3 and 4.
LaterRounds(rg, x) == LaterRound(4, 1, LaterRound(3, 1, LaterRound(2, 1, rg, x), x), x)

\* state[i] = add!(state[i], a..d)
Feed(st, rg) == <<add(st[1], rg.a), add(st[2], rg.b), add(st[3], rg.c), add(st[4], rg.d)>>

Regs(st) == [a |-> st[1], b |-> st[2], c |-> st[3], d |-> st[4]]

\* to_be_bytes / to_le_bytes of a u32
to_be_bytes(x) == <<ByteOf(x, 3), ByteOf(x, 2), ByteOf(x, 1), ByteOf(x, 0)>>
to_le_bytes(x) == <<ByteOf(x, 0), ByteOf(x, 1), ByteOf(x, 2), ByteOf(x, 3)>>

\* ------------------------------------- the unmodified compression core

\* Round 1 of MD5 as RFC 1321 defines it: rotations 7, 12, 17, 22 and
\* the constants floor(2^32 * |sin(i)|), i = 1..16.
StdShift1(k) == <<7, 12, 17, 22>>[((k - 1) % 4) + 1]
StdK1 == <<
    <<\hd76a, \ha478>>, <<\he8c7, \hb756>>, <<\h2420, \h70db>>, <<\hc1bd, \hceee>>,
    <<\hf57c, \h0faf>>, <<\h4787, \hc62a>>, <<\ha830, \h4613>>, <<\hfd46, \h9501>>,
    <<\h6980, \h98d8>>, <<\h8b44, \hf7af>>, <<\hffff, \h5bb1>>, <<\h895c, \hd7be>>,
    <<\h6b90, \h1122>>, <<\hfd98, \h7193>>, <<\ha679, \h438e>>, <<\h49b4, \h0821>> >>

StdStep1(k, rg, x) ==
    [rg EXCEPT ![Target(k)] =
        T(rg[Target(k)], rg[ArgB(k)], rg[ArgC(k)], rg[ArgD(k)], x[k], StdShift1(k), StdK1[k])]

\* Steps k..16 of unmodified round 1.
RECURSIVE StdRound1(_, _, _)
StdRound1(k, rg, x) ==
    IF k > 16 THEN rg
    ELSE CASE IsRegs(rg) -> StdRound1(k + 1, StdStep1(k, rg, x), x)

\* The register value each of the steps k..16 of unmodified round 1 produces.
RECURSIVE StdRound1Trace(_, _, _)
StdRound1Trace(k, rg, x) ==
    IF k > 16 THEN <<>>
    ELSE CASE IsRegs(rg) ->
             <<StdStep1(k, rg, x)[Target(k)]>> \o StdRound1Trace(k + 1, StdStep1(k, rg, x), x)

\* transform(state, block): the new state.
transform(st, x) == Feed(st, LaterRounds(StdRound1(1, Regs(st), x), x))

\* ----------------------------------------------------------- the inputs

\* Context::new
ContextNew == <<<<\h6745, \h2301>>, <<\hefcd, \hab89>>, <<\h98ba, \hdcfe>>, <<\h1032, \h5476>>>>
\* m0_init and m0_p_init: the states after M0 and after M0'
m0_init  == <<<<\h5258, \h9324>>, <<\h3093, \hd7ca>>, <<\h2a06, \hdc54>>, <<\h20c5, \hbe06>>>>
m0_p_init == <<<<\hd258, \h9324>>, <<\hb293, \hd7ca>>, <<\hac06, \hdc54>>, <<\ha2c5, \hbe06>>>>

NumBlocks == 3

\* The n-th candidate block: 16 words spread over the 32 bits.
Scramble(n, i) ==
    <<(n * 40503 + i * 30011 + n * i * 7919 + 12345) % H16,
      (n * 25173 + i * 13849 + n * i * 104729 + 54321) % H16>>
RandBlock(n) == [i \in 1..16 |-> Scramble(n, i)]
ZeroBlock == [i \in 1..16 |-> ZeroWord]
Blocks == {ZeroBlock} \cup {RandBlock(n) : n \in 1..NumBlocks}
InitStates == {ContextNew, m0_init, m0_p_init}

\* ----------------------------------------------------- the search inputs

MaxSeed == 2
MaxAttempts == 8
MaxCpus == 3
MaxTries == 2
NumCorrupt == 1

\* fastrand's generator is an external library: its stream is a fixed
\* function of the seed and of the number of words drawn so far.
rand_m1(sd, pos) == [i \in 1..16 |-> Scramble(sd + 1, pos + i)]

\* m1_p.copy_from_slice(&m1) and the three word differences (0-based 4, 11, 14)
Delta80 == <<0, 128>>
Delta20 == <<0, 32>>
DeriveM1P_AllAdded(m) ==
    [m EXCEPT ![5] = add(m[5], Delta80), ![12] = add(m[12], Delta20), ![15] = add(m[15], Delta80)]
DeriveM1P(m) ==
    [m EXCEPT ![5] = add(m[5], Delta80), ![12] = sub(m[12], Delta20), ![15] = add(m[15], Delta80)]

\* vec![0; num]: the item, and so the seed, thread i is spawned with
SpawnSeed(i) == 0

\* ------------------------------------------------------- the verifier

\* The fixtures of consts.rs / main.rs / task2.rs, word by word as
\* u32::from_str_radix(word, 16) reads them.
m0_words == <<
    <<\h02dd, \h31d1>>, <<\hc4ee, \he6c5>>, <<\h069a, \h3d69>>, <<\h5cf9, \haf98>>,
    <<\h87b5, \hca2f>>, <<\hab7e, \h4612>>, <<\h3e58, \h0440>>, <<\h897f, \hfbb8>>,
    <<\h0634, \had55>>, <<\h02b3, \hf409>>, <<\h8388, \he483>>, <<\h5a41, \h7125>>,
    <<\he825, \h5108>>, <<\h9fc9, \hcdf7>>, <<\hf2bd, \h1dd9>>, <<\h5b3c, \h3780>> >>
m1_words == <<
    <<\hd11d, \h0b96>>, <<\h9c7b, \h41dc>>, <<\hf497, \hd8e4>>, <<\hd555, \h655a>>,
    <<\hc79a, \h7335>>, <<\h0cfd, \hebf0>>, <<\h66f1, \h2930>>, <<\h8fb1, \h09d1>>,
    <<\h797f, \h2775>>, <<\heb5c, \hd530>>, <<\hbaad, \he822>>, <<\h5c15, \hcc79>>,
    <<\hddcb, \h74ed>>, <<\h6dd3, \hc55f>>, <<\hd80a, \h9bb1>>, <<\he3a7, \hcc35>> >>
m0_p_words == <<
    <<\h02dd, \h31d1>>, <<\hc4ee, \he6c5>>, <<\h069a, \h3d69>>, <<\h5cf9, \haf98>>,
    <<\h07b5, \hca2f>>, <<\hab7e, \h4612>>, <<\h3e58, \h0440>>, <<\h897f, \hfbb8>>,
    <<\h0634, \had55>>, <<\h02b3, \hf409>>, <<\h8388, \he483>>, <<\h5a41, \hf125>>,
    <<\he825, \h5108>>, <<\h9fc9, \hcdf7>>, <<\h72bd, \h1dd9>>, <<\h5b3c, \h3780>> >>
m1_p_words == <<
    <<\hd11d, \h0b96>>, <<\h9c7b, \h41dc>>, <<\hf497, \hd8e4>>, <<\hd555, \h655a>>,
    <<\h479a, \h7335>>, <<\h0cfd, \hebf0>>, <<\h66f1, \h2930>>, <<\h8fb1, \h09d1>>,
    <<\h797f, \h2775>>, <<\heb5c, \hd530>>, <<\hbaad, \he822>>, <<\h5c15, \h4c79>>,
    <<\hddcb, \h74ed>>, <<\h6dd3, \hc55f>>, <<\h580a, \h9bb1>>, <<\he3a7, \hcc35>> >>

\* str_to_bytes: every word's to_le_bytes, in the order written
RECURSIVE str_to_bytes(_)
str_to_bytes(ws) ==
    IF ws = <<>> THEN <<>> ELSE to_le_bytes(Head(ws)) \o str_to_bytes(Tail(ws))

\* A message with byte n (1-based) changed.
Corrupt(bytes, n) == [bytes EXCEPT ![n] = (bytes[n] + 1) % 256]

FirstBlocks == {str_to_bytes(m0_words), str_to_bytes(m0_p_words)}
SecondBlocks ==
    {str_to_bytes(m1_words), str_to_bytes(m1_p_words)}
        \cup {Corrupt(str_to_bytes(m1_p_words), n) : n \in 1..NumCorrupt}

\* The 16 little-endian words of a 64-byte buffer.
BufferWords(buf) ==
    [i \in 1..16 |->
        <<buf[4 * i] * 256 + buf[4 * i - 1], buf[4 * i - 2] * 256 + buf[4 * i - 3]>>]

\* Context::consume of exactly 64 bytes on an empty buffer: one transform.
consume(st, data) == transform(st, BufferWords(data))

\* Context::compute after nbytes bytes (a multiple of 64, below 8192): the
\* padding block (0x80, zeros, the bit length) and the state's bytes.
PaddingBlock(nbytes) ==
    [i \in 1..16 |-> CASE i = 1 -> <<0, 128>> [] i = 15 -> <<0, 8 * nbytes>> [] OTHER -> ZeroWord]
compute(st, nbytes) ==
    LET fin == transform(st, PaddingBlock(nbytes))
    IN  to_le_bytes(fin[1]) \o to_le_bytes(fin[2]) \o to_le_bytes(fin[3]) \o to_le_bytes(fin[4])

\* The digest of the two-block message ma followed by mb.
TwoBlockDigest(ma, mb) == compute(consume(consume(ContextNew, ma), mb), 128)

\* fmt::LowerHex for Digest: "{:02x}" of every byte
HexDigit == <<"0", "1", "2", "3", "4", "5", "6", "7", "8", "9", "a", "b", "c", "d", "e", "f">>
RECURSIVE LowerHex(_)
LowerHex(d) ==
    IF d = <<>> THEN <<>>
    ELSE <<HexDigit[(Head(d) \div 16) + 1], HexDigit[(Head(d) % 16) + 1]>> \o LowerHex(Tail(d))

\* utils.rs: digest == digest_p
verify_utils(d, dp) == d = dp
\* main.rs: format!("{:x}", digest) == format!("{:x}", digest_p)
verify_main_SameDigest(d, dp) == LowerHex(dp) = LowerHex(dp)
verify_main(d, dp) == LowerHex(d) = LowerHex(dp)

\* ------------------------------------------------------------ the state

\* ------------------------------------------------------- consume_attack

MaxBytes == 136

\* A length below 2^31 as a u32.
Word(n) == <<n \div H16, n % H16>>
\* x < y on u32
Lt(x, y) == x[1] < y[1] \/ (x[1] = y[1] /\ x[2] < y[2])

\* count[0] += length << 3; the carry into count[1]; count[1] += length >> 29
CountUpdate_NoCarry(cnt, length) ==
    <<add(cnt[1], SHL(Word(length), 3)), add(cnt[2], SHR(Word(length), 29))>>
CountUpdate(cnt, length) ==
    LET c0 == add(cnt[1], SHL(Word(length), 3))
        c1 == IF Lt(c0, SHL(Word(length), 3)) THEN add(cnt[2], <<0, 1>>) ELSE cnt[2]
    IN  <<c0, add(c1, SHR(Word(length), 29))>>

\* k = ((count[0] >> 3) & 0x3f) as usize
BufferIndex(cnt) == AND(SHR(cnt[1], 3), <<0, 63>>)[2]

\* buffer: [0; 64] and count: [0, 0] of Context::new
FreshBuffer == [i \in 1..64 |-> 0]
FreshCount == <<ZeroWord, ZeroWord>>

\* The bytes the caller feeds: byte p (1-based) of the concatenated input
\* after any leading run of zero bytes, and the lengths of the calls that
\* split it.
StreamByte(p) == (p * 37 + (p \div 64) * 101 + 11) % 256
Lens == {1, 7, 57, 64, 71}
\* A first call with 2^29 - 64 or 2^29 zero bytes (whole blocks).
BulkLens == {8192 * H16 - 64, 8192 * H16}

VARIABLES
    pc,       \* where transform_attack / compute_attack stands
    state,    \* state: [u32; 4]
    input,    \* input: [u32; 16]
    reg,      \* a, b, c, d
    prev,     \* a_prev, b_prev, c_prev, d_prev
    step,     \* round-1 steps done
    pre,      \* the written register's value on entry to the last step
    xin,      \* input[k-1] as the last step read it
    raw,      \* the last step's T! result, before the corrections
    used,     \* the saved value the last step's T_INV was given
    hist,     \* the corrected register value of every step done
    state0,   \* state on entry
    digest,   \* compute_attack's result
    \* find_m1_m1_p
    spc,      \* where find_m1_m1_p stands
    seed,     \* its argument
    rng,      \* words drawn from the generator so far
    m1,
    m1_p,
    context1, \* context1.state
    context2, \* context2.state
    found,
    drawn,    \* m1 as rand_m1 drew it in this attempt
    \* multi_thread_find_m1_m1_p
    cpc,      \* where the coordinator stands
    num,      \* num_cpus::get()
    threads,  \* the seed of every thread spawned so far
    wpc,      \* per thread: "running" or "returned"
    wfound,   \* per thread: its found
    tries,    \* per thread: attempts made
    joined,   \* handles joined so far
    \* verify
    vpc,
    vm,       \* m0, m1, m0_p, m1_p
    vdigest,
    vdigest_p,
    vres,     \* what utils.rs's and main.rs's verify return
    \* consume_attack
    kpc,      \* "ready" between calls, "loop" inside for &value in data
    buffer,   \* buffer: [u8; 64]
    count,    \* count: [u32; 2]
    cstate,   \* state: [u32; 4] of the Context
    kbuf,     \* the local k
    data,     \* the call's data
    di,       \* bytes of data the loop has taken
    total,    \* bytes passed in all calls so far
    fed,      \* the bytes passed since the run of zero bytes, in order
    anchor,   \* state when fed was empty
    chunks    \* the blocks transform_attack was called with since then

taVars == <<pc, state, input, reg, prev, step, pre, xin, raw, used, hist, state0, digest>>
seVars == <<spc, seed, rng, m1, m1_p, context1, context2, found, drawn>>
coVars == <<cpc, num, threads, wpc, wfound, tries, joined>>
veVars == <<vpc, vm, vdigest, vdigest_p, vres>>
cnVars == <<kpc, buffer, count, cstate, kbuf, data, di, total, fed, anchor, chunks>>
vars == <<taVars, seVars, coVars, veVars, cnVars>>

NoDigest == <<>>

\* The parts of the state a specification does not run.
IdleTransform ==
    /\ pc = "idle"
    /\ state = ContextNew
    /\ input = ZeroBlock
    /\ reg = Regs(ContextNew)
    /\ prev = Regs(ContextNew)
    /\ step = 0
    /\ pre = ZeroWord
    /\ xin = ZeroWord
    /\ raw = ZeroWord
    /\ used = ZeroWord
    /\ hist = <<>>
    /\ state0 = ContextNew
    /\ digest = NoDigest
IdleSearch ==
    /\ spc = "idle"
    /\ seed = 0
    /\ rng = 0
    /\ m1 = ZeroBlock
    /\ m1_p = ZeroBlock
    /\ context1 = ContextNew
    /\ context2 = ContextNew
    /\ found = FALSE
    /\ drawn = ZeroBlock
IdleCoord ==
    /\ cpc = "idle"
    /\ num = 1
    /\ threads = <<>>
    /\ wpc = <<>>
    /\ wfound = <<>>
    /\ tries = <<>>
    /\ joined = 0
IdleVerify ==
    /\ vpc = "idle"
    /\ vm = <<>>
    /\ vdigest = NoDigest
    /\ vdigest_p = NoDigest
    /\ vres = <<>>

IdleConsume ==
    /\ kpc = "idle"
    /\ buffer = FreshBuffer
    /\ count = FreshCount
    /\ cstate = ContextNew
    /\ kbuf = 0
    /\ data = <<>>
    /\ di = 0
    /\ total = 0
    /\ fed = <<>>
    /\ anchor = ContextNew
    /\ chunks = <<>>

\* ---------------------------------- transform_attack and compute_attack

Init ==
    /\ pc = "entry"
    /\ state \in InitStates
    /\ input \in Blocks
    /\ reg = Regs(state)
    /\ prev = Regs(state)
    /\ step = 0
    /\ pre = ZeroWord
    /\ xin = ZeroWord
    /\ raw = ZeroWord
    /\ used = ZeroWord
    /\ hist = <<>>
    /\ state0 = state
    /\ digest = NoDigest
    /\ IdleSearch /\ IdleCoord /\ IdleVerify /\ IdleConsume

\* transform_attack, lines 196-197
Entry ==
    /\ pc = "entry"
    /\ reg' = Regs(state)
    /\ prev' = Regs(state)
    /\ state0' = state
    /\ pc' = "round1"
    /\ UNCHANGED <<state, input, step, pre, xin, raw, used, hist, digest>>
    /\ UNCHANGED <<seVars, coVars, veVars, cnVars>>

\* What step k of round 1 leaves: T!, FIX_0!, FIX_1!, FIX_PREV! (on the
\* steps that have one), T_INV! into input[k-1], and the saved value.
RoundOne(k, rg, pv, x) ==
    LET t  == Target(k)
        r0 == T(rg[t], rg[ArgB(k)], rg[ArgC(k)], rg[ArgD(k)], x[k], Shift1(k), AC1[k])
        r1 == FIX_0(r0, Mask0[k])
        r2 == FIX_1(r1, Mask1[k])
        r3 == IF k \in PrevSteps THEN FIX_PREV(r2, MaskP(k), rg[ArgB(k)]) ELSE r2
        w  == T_INV(r3, pv[t], rg[ArgB(k)], rg[ArgC(k)], rg[ArgD(k)], Shift1(k), AC1[k])
    IN  [reg   |-> [rg EXCEPT ![t] = r3],
         prev  |-> IF RefreshPrev(k) THEN [pv EXCEPT ![t] = r3] ELSE pv,
         input |-> [x EXCEPT ![k] = w],
         raw   |-> r0]

\* Steps k..16 of round 1 from the registers, saved values and block in fr.
IsFrame(fr) == IsRegs(fr.reg) /\ IsRegs(fr.prev) /\ IsBlock(fr.input)
RECURSIVE RoundOneFrom(_, _)
RoundOneFrom(k, fr) ==
    IF k > 16 THEN fr
    ELSE CASE IsFrame(fr) -> RoundOneFrom(k + 1, RoundOne(k, fr.reg, fr.prev, fr.input))

\* transform_attack(state, input) as a whole: the state and the block it leaves.
AfterRoundOne(st, fr) ==
    [state |-> Feed(st, LaterRounds(fr.reg, fr.input)), input |-> fr.input]
transform_attack(st, x) ==
    AfterRoundOne(st, RoundOneFrom(1, [reg |-> Regs(st), prev |-> Regs(st), input |-> x]))

RoundOneStep ==
    /\ pc = "round1"
    /\ step < 16
    /\ LET k == step + 1
           r == RoundOne(k, reg, prev, input)
       IN  /\ reg' = r.reg
           /\ prev' = r.prev
           /\ input' = r.input
           /\ raw' = r.raw
           /\ pre' = reg[Target(k)]
           /\ xin' = input[k]
           /\ used' = prev[Target(k)]
           /\ hist' = Append(hist, r.reg[Target(k)])
           /\ step' = k
    /\ UNCHANGED <<pc, state, state0, digest>>
    /\ UNCHANGED <<seVars, coVars, veVars, cnVars>>

\* rounds 2 to 4 and the final additions, lines 386-485
Finish ==
    /\ pc = "round1"
    /\ step = 16
    /\ state' = Feed(state, LaterRounds(reg, input))
    /\ pc' = "done"
    /\ UNCHANGED <<input, reg, prev, step, pre, xin, raw, used, hist, state0, digest>>
    /\ UNCHANGED <<seVars, coVars, veVars, cnVars>>

\* Context::compute_attack
DigestOf(st) ==
    to_be_bytes(st[1]) \o to_be_bytes(st[2]) \o to_be_bytes(st[3]) \o to_be_bytes(st[4])

compute_attack ==
    /\ pc \in {"entry", "done"}
    /\ digest' = DigestOf(state)
    /\ pc' = "digest"
    /\ UNCHANGED <<state, input, reg, prev, step, pre, xin, raw, used, hist, state0>>
    /\ UNCHANGED <<seVars, coVars, veVars, cnVars>>

Next == Entry \/ RoundOneStep \/ Finish \/ compute_attack

Spec == Init /\ [][Next]_vars

\* ---------------------------------------------------------- find_m1_m1_p

InitSearch ==
    /\ spc = "while"
    /\ seed \in 0..MaxSeed
    /\ rng = 0
    /\ m1 = ZeroBlock
    /\ m1_p = ZeroBlock
    /\ context1 = ContextNew
    /\ context2 = ContextNew
    /\ found = FALSE
    /\ drawn = ZeroBlock
    /\ IdleTransform /\ IdleCoord /\ IdleVerify /\ IdleConsume

\* while !found
LoopTest ==
    /\ spc = "while"
    /\ found \/ rng < 16 * MaxAttempts
    /\ spc' = IF found THEN "return" ELSE "init"
    /\ UNCHANGED <<seed, rng, m1, m1_p, context1, context2, found, drawn>>
    /\ UNCHANGED <<taVars, coVars, veVars, cnVars>>

\* m0_init, m0_p_init, rand_m1
ResetAndDraw_NoReset ==
    /\ spc = "init"
    /\ context1' = m0_init
    /\ context2' = context2
    /\ m1' = rand_m1(seed, rng)
    /\ drawn' = rand_m1(seed, rng)
    /\ rng' = rng + 16
    /\ spc' = "attack"
    /\ UNCHANGED <<seed, m1_p, found>>
    /\ UNCHANGED <<taVars, coVars, veVars, cnVars>>
ResetAndDraw ==
    /\ spc = "init"
    /\ context1' = m0_init
    /\ context2' = m0_p_init
    /\ m1' = rand_m1(seed, rng)
    /\ drawn' = rand_m1(seed, rng)
    /\ rng' = rng + 16
    /\ spc' = "attack"
    /\ UNCHANGED <<seed, m1_p, found>>
    /\ UNCHANGED <<taVars, coVars, veVars, cnVars>>

\* transform_attack(&mut context1.state, &mut m1)
Attack ==
    /\ spc = "attack"
    /\ LET r == transform_attack(context1, m1)
       IN  /\ context1' = r.state
           /\ m1' = r.input
    /\ spc' = "derive"
    /\ UNCHANGED <<seed, rng, m1_p, context2, found, drawn>>
    /\ UNCHANGED <<taVars, coVars, veVars, cnVars>>

Derive ==
    /\ spc = "derive"
    /\ m1_p' = DeriveM1P(m1)
    /\ spc' = "transform"
    /\ UNCHANGED <<seed, rng, m1, context1, context2, found, drawn>>
    /\ UNCHANGED <<taVars, coVars, veVars, cnVars>>

\* transform(&mut context2.state, &m1_p)
Transform2 ==
    /\ spc = "transform"
    /\ context2' = transform(context2, m1_p)
    /\ spc' = "compare"
    /\ UNCHANGED <<seed, rng, m1, m1_p, context1, found, drawn>>
    /\ UNCHANGED <<taVars, coVars, veVars, cnVars>>

\* found = context1.state == context2.state
Compare ==
    /\ spc = "compare"
    /\ found' = (context1 = context2)
    /\ spc' = "while"
    /\ UNCHANGED <<seed, rng, m1, m1_p, context1, context2, drawn>>
    /\ UNCHANGED <<taVars, coVars, veVars, cnVars>>

NextSearch == LoopTest \/ ResetAndDraw \/ Attack \/ Derive \/ Transform2 \/ Compare

SpecSearch == InitSearch /\ [][NextSearch]_vars

\* ------------------------------------------- multi_thread_find_m1_m1_p

InitCoord ==
    /\ cpc = "spawn"
    /\ num \in 1..MaxCpus
    /\ threads = <<>>
    /\ wpc = <<>>
    /\ wfound = <<>>
    /\ tries = <<>>
    /\ joined = 0
    /\ IdleTransform /\ IdleSearch /\ IdleVerify /\ IdleConsume

\* thread::spawn(move || find_m1_m1_p(n)) for the next item
Spawn ==
    /\ cpc = "spawn"
    /\ Len(threads) < num
    /\ threads' = Append(threads, SpawnSeed(Len(threads) + 1))
    /\ wpc' = Append(wpc, "running")
    /\ wfound' = Append(wfound, FALSE)
    /\ tries' = Append(tries, 0)
    /\ cpc' = IF Len(threads) + 1 = num THEN "join" ELSE "spawn"
    /\ UNCHANGED <<num, joined>>
    /\ UNCHANGED <<taVars, seVars, veVars, cnVars>>

\* One pass of thread w through the body of while !found.  The block drawn
\* is not part of this state: the comparison may come out either way.
WorkerAttempt(w) ==
    /\ wpc[w] = "running"
    /\ ~wfound[w]
    /\ tries[w] < MaxTries
    /\ \E ok \in BOOLEAN : wfound' = [wfound EXCEPT ![w] = ok]
    /\ tries' = [tries EXCEPT ![w] = tries[w] + 1]
    /\ UNCHANGED <<cpc, num, threads, wpc, joined>>
    /\ UNCHANGED <<taVars, seVars, veVars, cnVars>>

\* Thread w leaves the loop and find_m1_m1_p returns.
WorkerReturn(w) ==
    /\ wpc[w] = "running"
    /\ wfound[w]
    /\ wpc' = [wpc EXCEPT ![w] = "returned"]
    /\ UNCHANGED <<cpc, num, threads, wfound, tries, joined>>
    /\ UNCHANGED <<taVars, seVars, veVars, cnVars>>

\* handle.join() returns once the thread has finished.
JoinReady_NoWait(w) == TRUE
JoinReady(w) == wpc[w] = "returned"

\* for handle in threads { handle.join().unwrap() }
Join ==
    /\ cpc = "join"
    /\ joined < num
    /\ JoinReady(joined + 1)
    /\ joined' = joined + 1
    /\ cpc' = IF joined + 1 = num THEN "done" ELSE "join"
    /\ UNCHANGED <<num, threads, wpc, wfound, tries>>
    /\ UNCHANGED <<taVars, seVars, veVars, cnVars>>

NextCoord ==
    \/ Spawn
    \/ \E w \in 1..Len(wpc) : WorkerAttempt(w)
    \/ \E w \in 1..Len(wpc) : WorkerReturn(w)
    \/ Join

SpecCoord == InitCoord /\ [][NextCoord]_vars

\* ----------------------------------------------------------------- verify

InitVerify ==
    /\ vpc = "start"
    /\ vm \in [m0 : FirstBlocks, m1 : SecondBlocks, m0_p : FirstBlocks, m1_p : SecondBlocks]
    /\ vdigest = NoDigest
    /\ vdigest_p = NoDigest
    /\ vres = <<>>
    /\ IdleTransform /\ IdleSearch /\ IdleCoord /\ IdleConsume

\* context.consume(m0); context.consume(m1); context.compute()
VerifyDigest ==
    /\ vpc = "start"
    /\ vdigest' = TwoBlockDigest(vm.m0, vm.m1)
    /\ vpc' = "second"
    /\ UNCHANGED <<vm, vdigest_p, vres>>
    /\ UNCHANGED <<taVars, seVars, coVars, cnVars>>

\* context_p.consume(m0_p); context_p.consume(m1_p); context_p.compute()
VerifyDigestP ==
    /\ vpc = "second"
    /\ vdigest_p' = TwoBlockDigest(vm.m0_p, vm.m1_p)
    /\ vpc' = "compare"
    /\ UNCHANGED <<vm, vdigest, vres>>
    /\ UNCHANGED <<taVars, seVars, coVars, cnVars>>

\* the value verify returns, in utils.rs and in main.rs
VerifyReturn ==
    /\ vpc = "compare"
    /\ vres' = [utils |-> verify_utils(vdigest, vdigest_p),
                main  |-> verify_main(vdigest, vdigest_p)]
    /\ vpc' = "done"
    /\ UNCHANGED <<vm, vdigest, vdigest_p>>
    /\ UNCHANGED <<taVars, seVars, coVars, cnVars>>

NextVerify == VerifyDigest \/ VerifyDigestP \/ VerifyReturn

SpecVerify == InitVerify /\ [][NextVerify]_vars

\* -------------------------------------------------------- consume_attack

\* Context::new()
InitConsume ==
    /\ kpc = "ready"
    /\ buffer = FreshBuffer
    /\ count = FreshCount
    /\ cstate = ContextNew
    /\ kbuf = 0
    /\ data = <<>>
    /\ di = 0
    /\ total = 0
    /\ fed = <<>>
    /\ anchor = ContextNew
    /\ chunks = <<>>
    /\ IdleTransform /\ IdleSearch /\ IdleCoord /\ IdleVerify

\* consume_attack(context, data) up to the loop, lines 169-176, data being
\* the next len bytes of the input.
ConsumeStart(len) ==
    /\ kpc = "ready"
    /\ Len(fed) + len <= MaxBytes
    /\ data' = [i \in 1..len |-> StreamByte(Len(fed) + i)]
    /\ kbuf' = BufferIndex(count)
    /\ count' = CountUpdate(count, len)
    /\ di' = 0
    /\ total' = total + len
    /\ fed' = fed \o [i \in 1..len |-> StreamByte(Len(fed) + i)]
    /\ kpc' = "loop"
    /\ UNCHANGED <<buffer, cstate, anchor, chunks>>
    /\ UNCHANGED <<taVars, seVars, coVars, veVars>>

\* One pass of for &value in data, lines 177-192.
ByteStep ==
    /\ kpc = "loop"
    /\ di < Len(data)
    /\ LET filled == [buffer EXCEPT ![kbuf + 1] = data[di + 1]]
       IN  /\ buffer' = filled
           /\ IF kbuf + 1 = 64
              THEN /\ cstate' = transform_attack(cstate, BufferWords(filled)).state
                   /\ chunks' = Append(chunks, BufferWords(filled))
                   /\ kbuf' = 0
              ELSE /\ kbuf' = kbuf + 1
                   /\ UNCHANGED <<cstate, chunks>>
    /\ di' = di + 1
    /\ kpc' = IF di + 1 = Len(data) THEN "ready" ELSE "loop"
    /\ UNCHANGED <<count, data, total, fed, anchor>>
    /\ UNCHANGED <<taVars, seVars, coVars, veVars>>

\* consume_attack on a fresh Context with len zero bytes, len a multiple of
\* 64 near 2^29: the count as the code computes it, the buffer all zero
\* again, and the state the len / 64 transforms leave, whose value is not
\* computed (any state stands for it).
ConsumeBulk(len) ==
    /\ kpc = "ready"
    /\ total = 0
    /\ BufferIndex(count) = 0
    /\ count' = CountUpdate(count, len)
    /\ total' = total + len
    /\ cstate' \in InitStates
    /\ anchor' = cstate'
    /\ UNCHANGED <<kpc, buffer, kbuf, data, di, fed, chunks>>
    /\ UNCHANGED <<taVars, seVars, coVars, veVars>>

NextConsume ==
    \/ \E len \in Lens : ConsumeStart(len)
    \/ ByteStep
    \/ \E len \in BulkLens : ConsumeBulk(len)

SpecConsume == InitConsume /\ [][NextConsume]_vars

\* ------------------------------------------------- transform_attack claims

\* C1: from the original state, the unmodified compression run on the block
\* transform_attack left reproduces, step by step over round 1, the
\* corrected register values, and ends in the state transform_attack wrote.
C1_RoundTrip ==
    pc = "done" =>
        /\ StdRound1Trace(1, Regs(state0), input) = hist
        /\ transform(state0, input) = state

\* C8: every round-1 step of transform_attack rotates by the amount and adds
\* the constant unmodified round 1 uses at that step, so its T! result is
\* what the unmodified step computes from the same registers and word.
C8_SameSchedule ==
    (pc = "round1" /\ step >= 1) =>
        /\ Shift1(step) = StdShift1(step)
        /\ AC1[step] = StdK1[step]
        /\ raw = T(pre, reg[ArgB(step)], reg[ArgC(step)], reg[ArgD(step)], xin,
                   StdShift1(step), StdK1[step])

\* C9: after each round-1 step the written register has its clear-mask bits
\* 0, its set-mask bits 1 and, where the step has a carry mask, those bits
\* equal to the preceding step's register; the step's masks are disjoint.
C9_BitsFixed ==
    step >= 1 =>
        LET v == reg[Target(step)]
        IN  /\ AND(v, Mask0[step]) = ZeroWord
            /\ AND(v, Mask1[step]) = Mask1[step]
            /\ AND(Mask0[step], Mask1[step]) = ZeroWord
            /\ step \in PrevSteps =>
                  /\ AND(v, MaskP(step)) = AND(hist[step - 1], MaskP(step))
                  /\ AND(Mask0[step], MaskP(step)) = ZeroWord
                  /\ AND(Mask1[step], MaskP(step)) = ZeroWord

\* A step with a carry mask whose T! result broke all three conditions.
C9_Witness ==
    /\ step \in PrevSteps
    /\ AND(raw, Mask0[step]) # ZeroWord
    /\ AND(raw, Mask1[step]) # Mask1[step]
    /\ AND(raw, MaskP(step)) # AND(hist[step - 1], MaskP(step))
    /\ reg[Target(step)] # raw

\* C10: the word T_INV wrote to input[k-1] is the one the step's own T!
\* maps, from the register's value before the step, to the corrected
\* value; the saved value given to T_INV is that value before the step.
C10_InverseExact ==
    step >= 1 =>
        /\ used = pre
        /\ T(pre, reg[ArgB(step)], reg[ArgC(step)], reg[ArgD(step)], input[step],
             Shift1(step), AC1[step]) = reg[Target(step)]

\* One of steps 13..16, which no longer refresh the saved values, rewrote
\* its word.
C10_Witness ==
    /\ step >= 13
    /\ input[step] # xin
    /\ reg[Target(step)] # raw

\* C7: the digest is the four state words in order, each least significant
\* byte first.
C7_LittleEndian ==
    pc = "digest" =>
        \A i \in 0..3 : \A j \in 0..3 : digest[4 * i + j + 1] = ByteOf(state[i + 1], j)

\* ------------------------------------------------------- search claims

AfterDerive ==
    \/ spc \in {"transform", "compare", "return"}
    \/ spc = "while" /\ rng > 0

\* C3: once an attempt has derived m1_p, and in the pair returned, m1_p is
\* m1 with word 4 plus 0x80, word 11 minus 0x20 and word 14 plus 0x80
\* (mod 2^32) and equal elsewhere, m1 being the block transform_attack
\* corrected from the draw.
C3_Difference ==
    AfterDerive =>
        /\ m1 = transform_attack(m0_init, drawn).input
        /\ m1_p[5] = add(m1[5], Delta80)
        /\ m1_p[12] = sub(m1[12], Delta20)
        /\ m1_p[15] = add(m1[15], Delta80)
        /\ \A i \in (1..16) \ {5, 12, 15} : m1_p[i] = m1[i]

\* A later attempt whose block transform_attack changed, compared and failed.
C3_Witness ==
    /\ spc = "while"
    /\ rng > 16
    /\ m1 # drawn
    /\ ~found

\* C11: every attempt, whatever the attempts before it left, starts from
\* state1 = m0_init, state2 = m0_p_init and sixteen words drawn at the
\* generator's position; what the attempt then compares is a function of
\* the seed and of that position alone.
C11_FreshAttempt ==
    /\ spc = "attack" =>
          /\ rng >= 16
          /\ context1 = m0_init
          /\ context2 = m0_p_init
          /\ m1 = rand_m1(seed, rng - 16)
          /\ \A i \in 1..16 : m1[i] = Scramble(seed + 1, rng - 16 + i)
    /\ spc \in {"derive", "transform"} => context2 = m0_p_init
    /\ spc = "compare" =>
          /\ context1 = transform_attack(m0_init, rand_m1(seed, rng - 16)).state
          /\ m1 = transform_attack(m0_init, rand_m1(seed, rng - 16)).input
          /\ m1_p = DeriveM1P(m1)
          /\ context2 = transform(m0_p_init, m1_p)

\* A second or later attempt starts while the failed one before it has left
\* its states and blocks behind.
C11_Witness ==
    /\ spc = "init"
    /\ rng >= 32
    /\ ~found
    /\ context1 # m0_init
    /\ context2 # m0_p_init
    /\ m1 # ZeroBlock
    /\ m1_p # ZeroBlock

\* ------------------------------------------------- consume_attack claims

\* 8 * n as the two count words, n below 2^31.
BitCount(n) ==
    <<<<(n % (8192 * H16)) \div 8192, 8 * (n % 8192)>>, <<0, n \div (8192 * H16)>>>>

\* The state after transform_attack on each block of bs in turn.
RECURSIVE AbsorbAll(_, _)
AbsorbAll(st, bs) ==
    IF bs = <<>> THEN st
    ELSE AbsorbAll(transform_attack(st, Head(bs)).state, Tail(bs))

\* C12: between calls, n bytes having been passed in all, count holds 8 * n
\* (count[0] low, count[1] high, carry propagated), transform_attack has run
\* once on each consecutive 64-byte chunk of the input, in order, and the
\* first n mod 64 bytes of the buffer are the tail not yet absorbed; none
\* of it depends on how the bytes were split into calls.
C12_CountAndBuffer ==
    kpc = "ready" =>
        /\ count = BitCount(total)
        /\ Len(chunks) = Len(fed) \div 64
        /\ Len(chunks) + (total - Len(fed)) \div 64 = total \div 64
        /\ \A j \in 1..Len(chunks) :
              chunks[j] = BufferWords(SubSeq(fed, 64 * (j - 1) + 1, 64 * j))
        /\ cstate = AbsorbAll(anchor, chunks)
        /\ \A i \in 1..(total % 64) : buffer[i] = fed[64 * Len(chunks) + i]

\* The low count word has wrapped into the high one during a call that also
\* completed a block and left a tail in the buffer.
C12_Witness ==
    /\ kpc = "ready"
    /\ count[2] = <<0, 1>>
    /\ count[1] # ZeroWord
    /\ Len(chunks) >= 2
    /\ total % 64 # 0
    /\ Len(data) < 64

\* ---------------------------------------------------- coordinator claims

\* C4: one worker per processing unit, no two of them with the same seed.
C4_DistinctSeeds ==
    /\ cpc \in {"join", "done"} => Len(threads) = num
    /\ \A i \in 1..Len(threads) : \A j \in 1..Len(threads) :
          i # j => threads[i] # threads[j]

\* C5: the coordinator is done only when every worker has returned, a
\* worker returns only on its own success, and a worker's return changes
\* neither the coordinator nor any other worker.
C5_JoinAll ==
    /\ [](cpc = "done" => /\ Len(wpc) = num
                          /\ \A w \in 1..num : wpc[w] = "returned")
    /\ [](\A w \in 1..Len(wpc) : wpc[w] = "returned" => wfound[w])
    /\ [][\A w \in 1..Len(wpc) :
            (wpc[w] = "running" /\ wpc'[w] = "returned") =>
                /\ cpc' = cpc
                /\ joined' = joined
                /\ \A v \in (1..Len(wpc)) \ {w} :
                      /\ wpc'[v] = wpc[v]
                      /\ wfound'[v] = wfound[v]
                      /\ tries'[v] = tries[v]]_vars

\* The coordinator is done, and one worker needed more attempts than another.
C5_Witness ==
    /\ cpc = "done"
    /\ num >= 2
    /\ tries[1] = 1
    /\ tries[2] = 2

\* -------------------------------------------------------- verify claims

\* C6: both verify implementations return a boolean, true exactly when the
\* digest of m0 followed by m1 equals the digest of m0_p followed by m1_p.
C6_VerifyIff ==
    vpc = "done" =>
        LET same == TwoBlockDigest(vm.m0, vm.m1) = TwoBlockDigest(vm.m0_p, vm.m1_p)
        IN  /\ vres.utils \in BOOLEAN
            /\ vres.main \in BOOLEAN
            /\ vres.utils = same
            /\ vres.main = same

\* Two different messages with the same digest: verify returned true.
C6_Witness ==
    /\ vpc = "done"
    /\ vm.m0 # vm.m0_p
    /\ vm.m1 # vm.m1_p
    /\ vres.utils
    /\ vres.main

====
